---- MODULE Spec2Model ----
(***************************************************************************)
(* Model of src/main.py: is_number and count_keywords, the streaming       *)
(* keyword counter (tokenizer, frequency map, progress accounting, sorted  *)
(* CSV report).                                                            *)
(*                                                                         *)
(* A character is a string naming one code point: the ASCII characters are *)
(* themselves ("a", "#", "\n"; the grave accent is written "U+0060"), and  *)
(* "U+00E9" stands for the one non-ASCII letter of the model (e with acute *)
(* accent, two bytes in UTF-8).  A text (line, token) is a sequence of     *)
(* characters.                                                             *)
(***************************************************************************)
EXTENDS Integers, Sequences, FiniteSets

VARIABLES
    exists,          \* os.path.exists(file_path) at line 28
    file,            \* the input file: its raw lines, each [text, dropped]
    st_size,         \* what os.path.getsize(file_path) returns at line 35
    outFile0,        \* the output path before the run
    faults,          \* I/O faults the environment may still raise (0 or 1)
    pc,              \* position in count_keywords
    total_size,      \* line 35
    bytes_read,      \* line 36
    last_percent,    \* line 37
    keyword_counts,  \* line 34: the Counter, <<token, count>> in insertion order
    pos,             \* index in file of the next line the iterator yields
    progress,        \* the percentages printed as "Reading: N%", in order
    messages,        \* the other messages printed, in order
    error,           \* the exception that ended the try block, or "none"
    outFile          \* the output path now: [kind, rows]

vars == <<exists, file, st_size, outFile0, faults, pc, total_size, bytes_read,
          last_percent, keyword_counts, pos, progress, messages, error, outFile>>

----------------------------------------------------------------------------
(* Bounds of the exploration.                                              *)

\* bytes of the largest input file of Spec
MaxFileBytes == 10
\* bytes of one raw line that decoding drops (errors='ignore', "\r\n" -> "\n")
MaxDropped == 1
\* characters of the longest enumerated line of SpecLine (line alphabet)
MaxLineLen == 5
\* characters of the longest enumerated token of SpecLine (token alphabet)
MaxTokLen == 3

----------------------------------------------------------------------------
(* Characters and code points.                                             *)

Printable ==
    <<" ", "!", "\"", "#", "$", "%", "&", "'", "(", ")", "*", "+", ",", "-",
      ".", "/", "0", "1", "2", "3", "4", "5", "6", "7", "8", "9", ":", ";",
      "<", "=", ">", "?", "@", "A", "B", "C", "D", "E", "F", "G", "H", "I",
      "J", "K", "L", "M", "N", "O", "P", "Q", "R", "S", "T", "U", "V", "W",
      "X", "Y", "Z", "[", "\\", "]", "^", "_", "U+0060", "a", "b", "c", "d", "e",
      "f", "g", "h", "i", "j", "k", "l", "m", "n", "o", "p", "q", "r", "s",
      "t", "u", "v", "w", "x", "y", "z", "{", "|", "}", "~">>

EAcute == "U+00E9"

Chars == {Printable[i] : i \in 1..Len(Printable)} \cup {"\t", "\n", EAcute}

\* ord(c)
CodePoint ==
    [c \in Chars |->
        IF c = "\t" THEN 9
        ELSE IF c = "\n" THEN 10
        ELSE IF c = EAcute THEN 233
        ELSE 31 + (CHOOSE i \in 1..Len(Printable) : Printable[i] = c)]

IsAsciiDigit(c) == CodePoint[c] \in 48..57
IsAsciiUpper(c) == CodePoint[c] \in 65..90
IsAsciiLower(c) == CodePoint[c] \in 97..122

\* str.lower() on one character of the model
Lower(c) ==
    IF IsAsciiUpper(c) THEN Printable[CodePoint[c] + 32 - 31] ELSE c

\* The characters str.split() and float() treat as whitespace.
IsSpace(c) == c \in {" ", "\t", "\n"}

\* \w of a str pattern: Unicode alphanumerics and the underscore.
IsWordChar(c) ==
    IsAsciiDigit(c) \/ IsAsciiUpper(c) \/ IsAsciiLower(c) \/ c = "_" \/ c = EAcute

\* len(c.encode('utf-8'))
Utf8Len(c) == IF CodePoint[c] < 128 THEN 1 ELSE 2

RECURSIVE Utf8Bytes(_)
\* bytes of the UTF-8 encoding of s
Utf8Bytes(s) == IF s = <<>> THEN 0 ELSE Utf8Len(Head(s)) + Utf8Bytes(Tail(s))

\* s < t for two str: lexicographic by code point
StrLess(s, t) ==
    \E k \in 0..Len(s) :
        /\ k <= Len(t)
        /\ \A i \in 1..k : s[i] = t[i]
        /\ \/ k = Len(s) /\ k < Len(t)
           \/ k < Len(s) /\ k < Len(t) /\ CodePoint[s[k + 1]] < CodePoint[t[k + 1]]

----------------------------------------------------------------------------
(* is_number: float(s) succeeds.                                           *)

\* number of ASCII digits of s starting at position p
RECURSIVE DigitRun(_, _)
DigitRun(s, p) ==
    IF p <= Len(s) /\ IsAsciiDigit(s[p]) THEN 1 + DigitRun(s, p + 1) ELSE 0

\* float() allows one underscore between two digits and nowhere else
UnderscoresOk(s) ==
    \A i \in 1..Len(s) :
        s[i] = "_" => /\ i > 1 /\ IsAsciiDigit(s[i - 1])
                      /\ i < Len(s) /\ IsAsciiDigit(s[i + 1])

NotUnderscore(c) == c # "_"

\* digits [. digits] [(e|E) [sign] digits], at least one mantissa digit,
\* the whole of s
DecimalText(s) ==
    LET n1 == DigitRun(s, 1)
        dot == n1 + 1 <= Len(s) /\ s[n1 + 1] = "."
        n2 == IF dot THEN DigitRun(s, n1 + 2) ELSE 0
        q == n1 + (IF dot THEN 1 + n2 ELSE 0) + 1
        sg == q + 1 <= Len(s) /\ s[q + 1] \in {"+", "-"}
        d == IF sg THEN q + 2 ELSE q + 1
    IN  /\ n1 + n2 >= 1
        /\ \/ q = Len(s) + 1
           \/ /\ q <= Len(s)
              /\ Lower(s[q]) = "e"
              /\ DigitRun(s, d) >= 1
              /\ d + DigitRun(s, d) = Len(s) + 1

LowerText(s) == [i \in 1..Len(s) |-> Lower(s[i])]

SpecialFloat(s) ==
    LowerText(s) \in {<<"i", "n", "f">>, <<"n", "a", "n">>,
                      <<"i", "n", "f", "i", "n", "i", "t", "y">>}

is_number(s) ==
    /\ s # <<>>
    /\ UnderscoresOk(s)
    /\ LET t == SelectSeq(s, NotUnderscore)
           u == IF t # <<>> /\ t[1] \in {"+", "-"} THEN Tail(t) ELSE t
       IN  SpecialFloat(u) \/ DecimalText(u)

----------------------------------------------------------------------------
(* The loop body of count_keywords: cleaning a line, classifying tokens.   *)

\* LineBytes with the line encoded as UTF-16: a byte order mark and two
\* bytes for each character
LineBytesUtf16(line) == 2 + 2 * Len(line)

\* len(line.encode(encoding, errors='ignore')), encoding='utf-8' (line 195)
LineBytes(line) == Utf8Bytes(line)

\* int((bytes_read / total_size) * 100), total_size > 0.  The float
\* expression equals the integer quotient for every 0 <= b <= t < 50 (the
\* first difference is b = 29, t = 50).
Percent(b, t) == (b * 100) \div t

RECURSIVE SplitHash(_)
\* line.split('#', 1)[0]
SplitHash(s) ==
    IF s = <<>> \/ Head(s) = "#" THEN <<>>
    ELSE <<Head(s)>> \o SplitHash(Tail(s))

\* least index i >= from with s[i] = c, or 0
Find(s, c, from) ==
    IF \E i \in from..Len(s) : s[i] = c
    THEN CHOOSE i \in from..Len(s) :
             s[i] = c /\ \A j \in from..(i - 1) : s[j] # c
    ELSE 0

\* SubQuoted with the substitution left out
SubQuotedSkipped(s) == s

RECURSIVE SubQuoted(_)
\* re.compile(r'"[^"]*"').sub(' ', s): leftmost matches, left to right
SubQuoted(s) ==
    LET i == Find(s, "\"", 1)
        j == IF i = 0 THEN 0 ELSE Find(s, "\"", i + 1)
    IN  IF j = 0 THEN s
        ELSE SubSeq(s, 1, i - 1) \o <<" ">> \o SubQuoted(SubSeq(s, j + 1, Len(s)))

Operators == {"=", "{", "}"}

\* s.replace('=', ' ').replace('{', ' ').replace('}', ' ')
ReplaceOperators(s) ==
    [i \in 1..Len(s) |-> IF s[i] \in Operators THEN " " ELSE s[i]]

RECURSIVE SplitWs(_)
\* s.split(): the maximal runs of non-whitespace characters, in order
SplitWs(s) ==
    IF s = <<>> THEN <<>>
    ELSE IF IsSpace(Head(s)) THEN SplitWs(Tail(s))
    ELSE LET sp == CHOOSE k \in 1..(Len(s) + 1) :
                       /\ k = Len(s) + 1 \/ IsSpace(s[k])
                       /\ \A m \in 1..(k - 1) : ~IsSpace(s[m])
         IN  <<SubSeq(s, 1, sp - 1)>> \o SplitWs(SubSeq(s, sp, Len(s)))

\* Tokens with the quoted strings removed before the comment is cut
TokensQuotesFirst(line) == SplitWs(ReplaceOperators(SplitHash(SubQuoted(line))))

\* lines 62-71: the candidate tokens of a line
Tokens(line) == SplitWs(ReplaceOperators(SubQuoted(SplitHash(line))))

\* FullMatchWord with word_pattern.match: a word at the start is enough
MatchWord(token) == token # <<>> /\ IsWordChar(token[1])

\* word_pattern.fullmatch(token), word_pattern = \w+
FullMatchWord(token) ==
    token # <<>> /\ \A i \in 1..Len(token) : IsWordChar(token[i])

\* lines 76-99: the token reaches keyword_counts[token] += 1
Accepted(token) ==
    /\ token # <<>>
    /\ token \notin {<<"=">>, <<"{">>, <<"}">>}
    /\ ~is_number(token)
    /\ FullMatchWord(token)

\* Increment with keyword_counts[token] = 1
IncrementOverwrite(kc, token) ==
    IF \E i \in 1..Len(kc) : kc[i][1] = token
    THEN [i \in 1..Len(kc) |-> IF kc[i][1] = token THEN <<token, 1>> ELSE kc[i]]
    ELSE Append(kc, <<token, 1>>)

\* keyword_counts[token] += 1 on a Counter (a dict: insertion order kept)
Increment(kc, token) ==
    IF \E i \in 1..Len(kc) : kc[i][1] = token
    THEN [i \in 1..Len(kc) |->
             IF kc[i][1] = token THEN <<token, kc[i][2] + 1>> ELSE kc[i]]
    ELSE Append(kc, <<token, 1>>)

RECURSIVE CountTokens(_, _)
\* lines 74-100: for token in tokens
CountTokens(kc, tokens) ==
    IF tokens = <<>> THEN kc
    ELSE CountTokens(IF Accepted(Head(tokens)) THEN Increment(kc, Head(tokens))
                     ELSE kc,
                     Tail(tokens))

----------------------------------------------------------------------------
(* The report: sorted(keyword_counts.items(), key=(-count, token)).        *)

\* SortKey without the minus sign
SortKeyAscending(item) == <<item[2], item[1]>>

\* key=lambda item: (-item[1], item[0])
SortKey(item) == <<-item[2], item[1]>>

\* k1 < k2 for two (int, str) tuples
KeyLess(k1, k2) ==
    k1[1] < k2[1] \/ (k1[1] = k2[1] /\ StrLess(k1[2], k2[2]))

\* item put into the sorted sequence, after every element not greater (stable)
Insert(sorted, item) ==
    LET p == CHOOSE k \in 0..Len(sorted) :
                 /\ \A i \in 1..k : ~KeyLess(SortKey(item), SortKey(sorted[i]))
                 /\ k < Len(sorted) => KeyLess(SortKey(item), SortKey(sorted[k + 1]))
    IN  SubSeq(sorted, 1, p) \o <<item>> \o SubSeq(sorted, p + 1, Len(sorted))

RECURSIVE Sorted(_)
\* sorted(items, key=SortKey): a stable sort
Sorted(items) ==
    IF items = <<>> THEN <<>>
    ELSE Insert(Sorted(SubSeq(items, 1, Len(items) - 1)), items[Len(items)])

----------------------------------------------------------------------------
(* The environment: input files, the output path.                          *)

\* a local of count_keywords that is not bound yet
None == "None"

\* bytes of a raw line in the file: those of its text and those dropped
RawSize(r) == Utf8Bytes(r.text) + r.dropped

RECURSIVE FileSize(_)
\* bytes of the file
FileSize(f) == IF f = <<>> THEN 0 ELSE RawSize(Head(f)) + FileSize(Tail(f))

\* The lines the files of Spec are made of: each ends with its newline.
SampleLines ==
    { <<"a", "\n">>,
      <<"b", "\n">>,
      <<"b", " ", "a", "\n">>,
      <<"a", "=", "1", "\n">>,
      <<EAcute, "\n">>,
      <<"c", "#", "a", "\n">> }

RawLines == {[text |-> t, dropped |-> d] : t \in SampleLines, d \in 0..MaxDropped}

RECURSIVE Files(_)
\* every file of at most n bytes made of RawLines
Files(n) ==
    {<<>>} \cup
    UNION { {<<r>> \o f : f \in Files(n - RawSize(r))} :
            r \in {x \in RawLines : RawSize(x) <= n} }

Absent == [kind |-> "absent", rows |-> <<>>]
Stale == [kind |-> "stale", rows |-> <<>>]

\* the sequences over S of length at most n
BoundedSeq(S, n) == UNION {[1..k -> S] : k \in 0..n}

LineAlphabet == {" ", "#", "\"", "=", "{", "a", "1"}
TokenAlphabet == {"1", ".", "-", "e", "_", "n", "a", "i", "f", EAcute}

\* key = "a quoted value" # trailing comment
NoiseLine ==
    <<"k", "e", "y", " ", "=", " ", "\"", "a", " ", "q", "u", "o", "t", "e", "d",
      " ", "v", "a", "l", "u", "e", "\"", " ", "#", " ", "t", "r", "a", "i", "l",
      "i", "n", "g", " ", "c", "o", "m", "m", "e", "n", "t">>

\* x 42 -3.14 0.5 v2 infinity
NumbersLine ==
    <<"x", " ", "4", "2", " ", "-", "3", ".", "1", "4", " ", "0", ".", "5", " ",
      "v", "2", " ", "i", "n", "f", "i", "n", "i", "t", "y">>

\* k = "a b # c" d
HashInQuotesLine ==
    <<"k", " ", "=", " ", "\"", "a", " ", "b", " ", "#", " ", "c", "\"", " ", "d">>

\* caf<U+00E9> a.b
UnicodeLine == <<"c", "a", "f", EAcute, " ", "a", ".", "b">>

ExampleLines == {NoiseLine, NumbersLine, HashInQuotesLine, UnicodeLine}

\* The single lines of SpecLine.
LinePool ==
    (BoundedSeq(LineAlphabet, MaxLineLen) \cup BoundedSeq(TokenAlphabet, MaxTokLen)
        \cup ExampleLines) \ {<<>>}

----------------------------------------------------------------------------
(* count_keywords(file_path, output_csv_path, encoding='utf-8').           *)

Locals0 ==
    /\ pc = "start"
    /\ total_size = None
    /\ bytes_read = None
    /\ last_percent = None
    /\ keyword_counts = None
    /\ pos = 1
    /\ progress = <<>>
    /\ messages = <<>>
    /\ error = "none"
    /\ outFile = outFile0

\* Any file of SampleLines; getsize reports its size, or 0 (a special file
\* such as one under /proc reports st_size 0 and still yields lines).
Init ==
    /\ exists \in BOOLEAN
    /\ file \in Files(MaxFileBytes)
    /\ st_size \in {FileSize(file), 0}
    /\ outFile0 \in {Absent, Stale}
    /\ faults \in {0, 1}
    /\ Locals0

\* One line of LinePool, not newline-terminated; the missing path and the
\* I/O faults are explored on the one-character lines only.
InitLine ==
    /\ \E l \in LinePool :
          /\ file = <<[text |-> l, dropped |-> 0]>>
          /\ exists \in (IF Len(l) <= 1 THEN BOOLEAN ELSE {TRUE})
          /\ faults \in (IF Len(l) <= 1 THEN {0, 1} ELSE {0})
    /\ st_size = FileSize(file)
    /\ outFile0 = Absent
    /\ Locals0

\* the except clause of lines 111-114
ReadErrorReport == <<"ReadError", "EncodingHint">>

\* NotFound without the return of line 30: the run goes on to lines 32-37
NotFoundNoReturn ==
    /\ pc = "start"
    /\ ~exists
    /\ messages' = messages \o <<"NotFound", "Analyzing">>
    /\ keyword_counts' = <<>>
    /\ total_size' = st_size
    /\ bytes_read' = 0
    /\ last_percent' = -1
    /\ pc' = "open"
    /\ UNCHANGED <<exists, file, st_size, outFile0, faults, pos, progress, error,
                   outFile>>

\* lines 28-30
NotFound ==
    /\ pc = "start"
    /\ ~exists
    /\ messages' = Append(messages, "NotFound")
    /\ pc' = "returned"
    /\ UNCHANGED <<exists, file, st_size, outFile0, faults, total_size, bytes_read,
                   last_percent, keyword_counts, pos, progress, error, outFile>>

\* lines 32-37
Begin ==
    /\ pc = "start"
    /\ exists
    /\ messages' = Append(messages, "Analyzing")
    /\ keyword_counts' = <<>>
    /\ total_size' = st_size
    /\ bytes_read' = 0
    /\ last_percent' = -1
    /\ pc' = "open"
    /\ UNCHANGED <<exists, file, st_size, outFile0, faults, pos, progress, error,
                   outFile>>

\* line 47: open succeeds
OpenFile ==
    /\ pc = "open"
    /\ pc' = "loop"
    /\ UNCHANGED <<exists, file, st_size, outFile0, faults, total_size, bytes_read,
                   last_percent, keyword_counts, pos, progress, messages, error,
                   outFile>>

\* line 47: open raises; lines 107-114
OpenFail ==
    /\ pc = "open"
    /\ faults > 0
    /\ \E e \in {"FileNotFoundError", "PermissionError"} :
          /\ error' = e
          /\ messages' = IF e = "FileNotFoundError"
                          THEN Append(messages, "NotFound")
                          ELSE messages \o ReadErrorReport
    /\ faults' = faults - 1
    /\ pc' = "returned"
    /\ UNCHANGED <<exists, file, st_size, outFile0, total_size, bytes_read,
                   last_percent, keyword_counts, pos, progress, outFile>>

\* lines 48-100: one iteration of the loop; the division of line 53 raises
\* ZeroDivisionError when total_size is 0, caught at line 111
ReadLine ==
    /\ pc = "loop"
    /\ pos <= Len(file)
    /\ LET line == file[pos].text
           current_percent == Percent(bytes_read + LineBytes(line), total_size)
       IN  /\ bytes_read' = bytes_read + LineBytes(line)
           /\ pos' = pos + 1
           /\ IF total_size = 0
              THEN /\ error' = "ZeroDivisionError"
                   /\ messages' = messages \o ReadErrorReport
                   /\ pc' = "returned"
                   /\ UNCHANGED <<last_percent, progress, keyword_counts>>
              ELSE /\ progress' = IF current_percent > last_percent
                                  THEN Append(progress, current_percent)
                                  ELSE progress
                   /\ last_percent' = IF current_percent > last_percent
                                      THEN current_percent
                                      ELSE last_percent
                   /\ keyword_counts' = CountTokens(keyword_counts, Tokens(line))
                   /\ UNCHANGED <<pc, error, messages>>
    /\ UNCHANGED <<exists, file, st_size, outFile0, faults, total_size, outFile>>

\* ReadFail without the return of line 114: the run goes on to line 118
ReadFailNoReturn ==
    /\ pc = "loop"
    /\ faults > 0
    /\ error' = "OSError"
    /\ messages' = messages \o ReadErrorReport
    /\ faults' = faults - 1
    /\ pc' = "write"
    /\ UNCHANGED <<exists, file, st_size, outFile0, total_size, bytes_read,
                   last_percent, keyword_counts, pos, progress, outFile>>

\* line 48: the iterator raises (an OSError of the read); lines 111-114
ReadFail ==
    /\ pc = "loop"
    /\ faults > 0
    /\ error' = "OSError"
    /\ messages' = messages \o ReadErrorReport
    /\ faults' = faults - 1
    /\ pc' = "returned"
    /\ UNCHANGED <<exists, file, st_size, outFile0, total_size, bytes_read,
                   last_percent, keyword_counts, pos, progress, outFile>>

\* line 48: the iterator is exhausted; lines 103-105
EndOfFile ==
    /\ pc = "loop"
    /\ pos > Len(file)
    /\ progress' = Append(progress, 100)
    /\ messages' = Append(messages, "ReadingComplete")
    /\ pc' = "write"
    /\ UNCHANGED <<exists, file, st_size, outFile0, faults, total_size, bytes_read,
                   last_percent, keyword_counts, pos, error, outFile>>

\* lines 118-128: the header row, then the sorted rows
WriteReport ==
    /\ pc = "write"
    /\ outFile' = [kind |-> "report", rows |-> Sorted(keyword_counts)]
    /\ messages' = messages \o <<"Writing", "Created">>
    /\ pc' = "returned"
    /\ UNCHANGED <<exists, file, st_size, outFile0, faults, total_size, bytes_read,
                   last_percent, keyword_counts, pos, progress, error>>

\* lines 121-133: open(output_csv_path, 'w') raises and the path is left as
\* it was, or a write raises after the file was truncated and k rows written
WriteFail ==
    /\ pc = "write"
    /\ faults > 0
    /\ \/ outFile' = outFile
       \/ \E k \in 0..Len(keyword_counts) :
             outFile' = [kind |-> "partial",
                         rows |-> SubSeq(Sorted(keyword_counts), 1, k)]
    /\ messages' = messages \o <<"Writing", "WriteError">>
    /\ faults' = faults - 1
    /\ pc' = "returned"
    /\ UNCHANGED <<exists, file, st_size, outFile0, total_size, bytes_read,
                   last_percent, keyword_counts, pos, progress, error>>

Next ==
    \/ NotFound
    \/ Begin
    \/ OpenFile
    \/ OpenFail
    \/ ReadLine
    \/ ReadFail
    \/ EndOfFile
    \/ WriteReport
    \/ WriteFail

Spec == Init /\ [][Next]_vars

SpecLine == InitLine /\ [][Next]_vars

----------------------------------------------------------------------------
(* Vocabulary of the properties.                                           *)

Range(q) == {q[i] : i \in 1..Len(q)}

\* the locals of count_keywords are bound (lines 34-37 ran)
LocalsBound == exists /\ pc # "start"

\* the for loop of line 48 ended by exhausting the input
ReadToEnd == LocalsBound /\ "ReadingComplete" \in Range(messages)

Keys(kc) == {kc[i][1] : i \in 1..Len(kc)}

Times(q, v) == Cardinality({i \in 1..Len(q) : q[i] = v})

NonDecreasing(q) == \A i \in 1..(Len(q) - 1) : q[i] <= q[i + 1]

Increasing(q) == \A i \in 1..(Len(q) - 1) : q[i] < q[i + 1]

\* the index of the first '#' of line, or Len(line) + 1
HashAt(line) ==
    CHOOSE h \in 1..(Len(line) + 1) :
        /\ h = Len(line) + 1 \/ line[h] = "#"
        /\ \A j \in 1..(h - 1) : line[j] # "#"

PrefixBeforeHash(line) == SubSeq(line, 1, HashAt(line) - 1)

\* position i lies in a double-quoted substring of line[1..limit]: between an
\* opening quote (an even number of quotes before it) and the next quote
InQuoted(line, i, limit) ==
    \E p \in 1..i, q \in i..limit :
        /\ p < q
        /\ line[p] = "\"" /\ line[q] = "\""
        /\ \A j \in (p + 1)..(q - 1) : line[j] # "\""
        /\ Cardinality({j \in 1..(p - 1) : line[j] = "\""}) % 2 = 0

\* key is a piece of line before the first '#', outside every double-quoted
\* substring of line[1..limit], and holds no structural operator
FromVisibleText(key, line, limit) ==
    /\ \A i \in 1..Len(key) : key[i] \notin Operators
    /\ \E a \in 1..(HashAt(line) - 1), b \in 1..(HashAt(line) - 1) :
          /\ a <= b
          /\ SubSeq(line, a, b) = key
          /\ \A i \in a..b : ~InQuoted(line, i, limit)

KeyToken == <<"k", "e", "y">>

\* the lines the loop has processed
LinesRead == {file[i].text : i \in 1..(pos - 1)}

----------------------------------------------------------------------------
(* C1: progress notifications.                                             *)

\* C1 as claimed: for a non-empty input read to the end, the percentages
\* emitted are non-decreasing, the last one is 100, and 100 is emitted
\* exactly once in the whole run.
C1_HundredOnce ==
    (ReadToEnd /\ file # <<>>) =>
        /\ NonDecreasing(progress)
        /\ progress[Len(progress)] = 100
        /\ Times(progress, 100) = 1

\* C1 amended: for a non-empty input read to the end, the percentages are
\* non-decreasing (increasing up to the final one), the last one is 100, and
\* the final notification adds one 100 to whatever the lines printed: 100 is
\* emitted twice when the last line computed 100 and once otherwise.
C1_Progress ==
    (ReadToEnd /\ file # <<>>) =>
        /\ NonDecreasing(progress)
        /\ Increasing(SubSeq(progress, 1, Len(progress) - 1))
        /\ progress[Len(progress)] = 100
        /\ Times(progress, 100) = (IF last_percent = 100 THEN 2 ELSE 1)

C1_Witness ==
    /\ ReadToEnd
    /\ Len(file) >= 2
    /\ Len(progress) >= 3
    /\ last_percent = 100
    /\ Times(progress, 100) = 2

----------------------------------------------------------------------------
(* C2: order of the report.                                                *)

RowBefore(r1, r2) ==
    r1[2] > r2[2] \/ (r1[2] = r2[2] /\ StrLess(r1[1], r2[1]))

\* C2: in the report written, every two adjacent rows (r1, r2) satisfy
\* count(r1) > count(r2), or equal counts and token(r1) < token(r2) by code
\* point: the rows are strictly ordered.
C2_Ordered ==
    outFile.kind = "report" =>
        \A i \in 1..(Len(outFile.rows) - 1) :
            RowBefore(outFile.rows[i], outFile.rows[i + 1])

C2_Witness ==
    /\ outFile.kind = "report"
    /\ Len(outFile.rows) >= 3
    /\ outFile.rows # keyword_counts
    /\ \E i \in 1..(Len(outFile.rows) - 1) :
          outFile.rows[i][2] = outFile.rows[i + 1][2]
    /\ \E i \in 1..(Len(outFile.rows) - 1) :
          outFile.rows[i][2] > outFile.rows[i + 1][2]

----------------------------------------------------------------------------
(* C3: completeness of the report.                                         *)

\* the lines-and-positions of the input where T is an accepted token
Occurrences(T) ==
    UNION { {<<i, j>> : j \in {k \in 1..Len(Tokens(file[i].text)) :
                                 Tokens(file[i].text)[k] = T /\ Accepted(T)}} :
            i \in 1..Len(file) }

CandidateTokens == UNION {Range(Tokens(file[i].text)) : i \in 1..Len(file)}

\* C3: after a complete run the report holds exactly one row for every
\* token accepted at least once and no other row, and the row's count is
\* the number of times the token was accepted over the whole input.
C3_Complete ==
    (pc = "returned" /\ outFile.kind = "report") =>
        \A T \in CandidateTokens \cup Keys(outFile.rows) :
            LET n == Cardinality(Occurrences(T))
                at == {i \in 1..Len(outFile.rows) : outFile.rows[i][1] = T}
            IN  /\ Cardinality(at) = (IF n > 0 THEN 1 ELSE 0)
                /\ \A i \in at : outFile.rows[i][2] = n

C3_Witness ==
    /\ pc = "returned"
    /\ outFile.kind = "report"
    /\ Len(outFile.rows) >= 2
    /\ \E i \in 1..Len(outFile.rows) : outFile.rows[i][2] >= 2
    /\ \E T \in CandidateTokens : ~Accepted(T)

----------------------------------------------------------------------------
(* C4: the input path does not exist.                                      *)

\* C4: on a path that does not exist count_keywords reports NotFound and
\* returns: nothing is bound or tokenized, no progress is emitted and the
\* output path is left as it was.
C4_NotFound ==
    (~exists /\ pc # "start") =>
        /\ pc = "returned"
        /\ messages = <<"NotFound">>
        /\ progress = <<>>
        /\ pos = 1
        /\ keyword_counts = None
        /\ outFile = outFile0

C4_Witness ==
    /\ ~exists
    /\ pc = "returned"
    /\ file # <<>>
    /\ outFile = Absent

----------------------------------------------------------------------------
(* C5: a failure while the input is streamed.                              *)

\* C5: when the loop over the input fails, after any number of lines, the
\* read error and the encoding hint are reported, the function returns
\* without reaching the write step, and the output path is left as it was.
C5_ReadError ==
    error \in {"OSError", "ZeroDivisionError"} =>
        /\ pc = "returned"
        /\ Len(messages) >= 2
        /\ SubSeq(messages, Len(messages) - 1, Len(messages)) = ReadErrorReport
        /\ "Writing" \notin Range(messages)
        /\ outFile = outFile0

C5_Witness ==
    /\ error = "OSError"
    /\ pos > 2
    /\ Len(keyword_counts) >= 2
    /\ outFile = Stale

----------------------------------------------------------------------------
(* C6: what a line contributes.                                            *)

\* the noise line was processed and left exactly one keyword, key
NoiseLineYieldsKey ==
    (LocalsBound /\ error = "none" /\ pos = 2 /\ file[1].text = NoiseLine) =>
        keyword_counts = <<<<KeyToken, 1>>>>

\* C6 as claimed: every token counted is a piece of a line that lies before
\* the line's first '#' and outside every double-quoted substring of the
\* line, and holds none of '=', '{', '}'; the noise line yields only key.
C6_OutsideQuotesOfLine ==
    /\ (LocalsBound /\ error = "none") =>
          \A key \in Keys(keyword_counts) :
              \E line \in LinesRead : FromVisibleText(key, line, Len(line))
    /\ NoiseLineYieldsKey

\* C6 amended: every token counted is a piece of a line that lies before
\* the line's first '#' and outside every double-quoted substring of that
\* prefix (a quote closed only after the first '#', or never, hides
\* nothing), and holds none of '=', '{', '}'; the noise line yields only key.
C6_OutsideQuotesOfPrefix ==
    /\ (LocalsBound /\ error = "none") =>
          \A key \in Keys(keyword_counts) :
              \E line \in LinesRead :
                  FromVisibleText(key, line, HashAt(line) - 1)
    /\ NoiseLineYieldsKey

C6_Witness ==
    /\ pc = "returned"
    /\ file[1].text = NoiseLine
    /\ outFile = [kind |-> "report", rows |-> <<<<KeyToken, 1>>>>]

----------------------------------------------------------------------------
(* C7: numeric tokens.                                                     *)

\* s is digits, single underscores allowed between two digits
DigitGroup(s) ==
    /\ s # <<>>
    /\ \A i \in 1..Len(s) :
          \/ IsAsciiDigit(s[i])
          \/ /\ s[i] = "_"
             /\ 1 < i /\ i < Len(s)
             /\ IsAsciiDigit(s[i - 1]) /\ IsAsciiDigit(s[i + 1])

Unsigned(s) == IF s # <<>> /\ s[1] \in {"+", "-"} THEN Tail(s) ELSE s

\* digits, digits.digits, digits. or .digits
Mantissa(s) ==
    \/ DigitGroup(s)
    \/ \E d \in 1..Len(s) :
          LET int == SubSeq(s, 1, d - 1)
              frac == SubSeq(s, d + 1, Len(s))
          IN  /\ s[d] = "."
              /\ int = <<>> \/ DigitGroup(int)
              /\ frac = <<>> \/ DigitGroup(frac)
              /\ int # <<>> \/ frac # <<>>

\* an optionally signed decimal integer or floating-point literal, with or
\* without an exponent
IsDecimalLiteral(t) ==
    \E m \in 1..Len(Unsigned(t)) :
        LET u == Unsigned(t)
            expo == SubSeq(u, m + 1, Len(u))
        IN  /\ Mantissa(SubSeq(u, 1, m))
            /\ \/ expo = <<>>
               \/ /\ expo[1] \in {"e", "E"}
                  /\ DigitGroup(Unsigned(Tail(expo)))

IsAsciiWord(t) ==
    /\ t # <<>>
    /\ \A i \in 1..Len(t) :
          IsAsciiDigit(t[i]) \/ IsAsciiUpper(t[i]) \/ IsAsciiLower(t[i]) \/ t[i] = "_"

\* C7: a candidate token is discarded as numeric exactly when the whole
\* token is an optionally signed decimal integer or floating-point literal,
\* and every token of letters, digits and underscores that is not such a
\* literal is counted.
C7_NumericExactly ==
    (LocalsBound /\ error = "none") =>
        \A line \in LinesRead :
            \A t \in Range(Tokens(line)) :
                /\ is_number(t) <=> IsDecimalLiteral(t)
                /\ (IsAsciiWord(t) /\ ~IsDecimalLiteral(t)) =>
                       t \in Keys(keyword_counts)

----------------------------------------------------------------------------
(* C8: comments are cut before quoted strings are removed.                 *)

RECURSIVE CountPrefixes(_)
\* what the loop counts for the prefixes before the first '#' of lines 1..n
CountPrefixes(n) ==
    IF n = 0 THEN <<>>
    ELSE CountTokens(CountPrefixes(n - 1), Tokens(PrefixBeforeHash(file[n].text)))

\* C8: the tokens counted for a line are exactly those counted for its
\* prefix before the first '#', also when that '#' lies in a double-quoted
\* string.
C8_CommentFirst ==
    (LocalsBound /\ error = "none") => keyword_counts = CountPrefixes(pos - 1)

\* k = "a b # c" d was read: b, inside the quotes, is counted and d, after
\* them, is not
C8_Witness ==
    /\ LocalsBound
    /\ error = "none"
    /\ pos = 2
    /\ file[1].text = HashInQuotesLine
    /\ keyword_counts = <<<<<<"k">>, 1>>, <<<<"b">>, 1>>>>

----------------------------------------------------------------------------
(* C9: the keys of the frequency map.                                      *)

\* every key is a whole candidate token of a line read
KeysAreWholeTokens ==
    \A key \in Keys(keyword_counts) :
        \E line \in LinesRead : key \in Range(Tokens(line))

\* C9 as claimed: a token is counted only if the whole of it is made of
\* [A-Za-z0-9_]; any other token is dropped whole, so every key of the
\* frequency map matches [A-Za-z0-9_]+.
C9_AsciiKeys ==
    (LocalsBound /\ error = "none") =>
        /\ KeysAreWholeTokens
        /\ \A key \in Keys(keyword_counts) : IsAsciiWord(key)

\* C9 amended: a token is counted only if the whole of it is made of word
\* characters in the sense of \w on str (letters and digits of any script,
\* and the underscore); any other token is dropped whole, so every key of
\* the frequency map is a whole candidate token matching \w+.
C9_WordKeys ==
    (LocalsBound /\ error = "none") =>
        /\ KeysAreWholeTokens
        /\ \A key \in Keys(keyword_counts) :
              key # <<>> /\ \A i \in 1..Len(key) : IsWordChar(key[i])

\* caf<U+00E9> a.b was read: the first token is counted, the second dropped
C9_Witness ==
    /\ LocalsBound
    /\ error = "none"
    /\ pos = 2
    /\ file[1].text = UnicodeLine
    /\ keyword_counts = <<<<<<"c", "a", "f", EAcute>>, 1>>>>

----------------------------------------------------------------------------
(* C10: an input whose reported size is zero.                              *)

\* C10: when the size reported for the file is zero, no division by zero
\* happens whether or not the stream yields a line: unless an I/O fault
\* intervenes, the run emits the 100% notification and writes the report.
C10_NoZeroDivision ==
    (LocalsBound /\ total_size = 0) =>
        /\ error # "ZeroDivisionError"
        /\ (pc = "returned" /\ error = "none"
                /\ "WriteError" \notin Range(messages)) =>
              (100 \in Range(progress) /\ outFile.kind = "report")

====
